---- MODULE Spec2Model ----
(***************************************************************************)
(* Model of src/file-chooser.c: the FileChooser portal's request           *)
(* validation, lifecycle and asynchronous response assembly for one        *)
(* Request object (Requests share no mutable state with each other).       *)
(***************************************************************************)
EXTENDS Integers, Sequences, FiniteSets, TLC

(***************************************************************************)
(* Bounds of the model.                                                    *)
(***************************************************************************)
MaxUris == 2
MaxCancels == 2
\* Longest list of filters or of choices that is built from the sample entries.
MaxEntries == 2
\* Most patterns of a filter, and most sub-options of a choice.
MaxSub == 2

(***************************************************************************)
(* GVariant values.  Every value carries its type string and one payload  *)
(* field per kind, so that values of different types stay comparable.      *)
(***************************************************************************)
NoVal ==
  [type |-> "", b |-> FALSE, s |-> "", fl |-> <<>>, cl |-> <<>>, pl |-> <<>>, strv |-> <<>>]
VString(s) == [NoVal EXCEPT !.type = "s", !.s = s]
VBytes(s) == [NoVal EXCEPT !.type = "ay", !.s = s]
VBool(b) == [NoVal EXCEPT !.type = "b", !.b = b]
VFilters(l) == [NoVal EXCEPT !.type = "a(sa(us))", !.fl = l]
VChoices(l) == [NoVal EXCEPT !.type = "a(ssa(ss)s)", !.cl = l]
VStrv(l) == [NoVal EXCEPT !.type = "as", !.strv = l]
VPairs(l) == [NoVal EXCEPT !.type = "a(ss)", !.pl = l]

\* The NULL pointer, for a GVariant* or a char* that holds no value.
Null == [NoVal EXCEPT !.type = "NULL"]
\* A NULL GVariantType: g_variant_lookup_value () then accepts any type.
AnyType == "NULL"
\* The empty a{sv} dictionary.
EmptyDict == <<>>

\* g_variant_lookup_value (dictionary, key, expected_type)
g_variant_lookup_value(dict, key, type) ==
  IF key \in DOMAIN dict /\ (type = AnyType \/ dict[key].type = type)
  THEN dict[key]
  ELSE Null

\* g_variant_builder_add (&builder, "{sv}", key, value)
DictAdd(dict, key, value) ==
  [k \in DOMAIN dict \cup {key} |-> IF k = key THEN value ELSE dict[k]]

(***************************************************************************)
(* Structural validators.  A GError result is the message, Ok when unset.  *)
(***************************************************************************)
Ok == [ok |-> TRUE, code |-> "", message |-> ""]
\* g_set_error (error, XDG_DESKTOP_PORTAL_ERROR,
\*              XDG_DESKTOP_PORTAL_ERROR_INVALID_ARGUMENT, msg)
InvalidArgument == "XDG_DESKTOP_PORTAL_ERROR_INVALID_ARGUMENT"
Err(msg) == [ok |-> FALSE, code |-> InvalidArgument, message |-> msg]
g_prefix_error(err, prefix) == [err EXCEPT !.message = prefix \o @]

check_value_type(key, value, type) ==
  IF value.type = type
  THEN Ok
  ELSE Err("expected type for key " \o key \o " is " \o type \o ", found " \o value.type)

\* check_filter's loop without the test for an empty content type.
RECURSIVE check_filter_loop_keeps_empty_type(_, _)
check_filter_loop_keeps_empty_type(list, i) ==
  IF i > Len(list) THEN Ok
  ELSE IF list[i].type = 0
       THEN IF list[i].string = "" THEN Err("invalid glob pattern")
            ELSE check_filter_loop_keeps_empty_type(list, i + 1)
       ELSE IF list[i].type = 1
            THEN check_filter_loop_keeps_empty_type(list, i + 1)
            ELSE Err("invalid filter type: " \o ToString(list[i].type))
RECURSIVE check_filter_loop(_, _)
check_filter_loop(list, i) ==
  IF i > Len(list) THEN Ok
  ELSE IF list[i].type = 0
       THEN IF list[i].string = "" THEN Err("invalid glob pattern")
            ELSE check_filter_loop(list, i + 1)
       ELSE IF list[i].type = 1
            THEN IF list[i].string = "" THEN Err("invalid content type")
                 ELSE check_filter_loop(list, i + 1)
            ELSE Err("invalid filter type: " \o ToString(list[i].type))

check_filter(filter) ==
  IF filter.name = "" THEN Err("name is empty")
  ELSE IF Len(filter.list) = 0 THEN Err("no filters")
  ELSE check_filter_loop(filter.list, 1)

RECURSIVE check_filters_loop(_, _)
check_filters_loop(fl, i) ==
  IF i > Len(fl) THEN Ok
  ELSE IF ~check_filter(fl[i]).ok
       THEN g_prefix_error(check_filter(fl[i]), "invalid filter: ")
       ELSE check_filters_loop(fl, i + 1)

check_filters(value) ==
  IF ~check_value_type("filters", value, "a(sa(us))").ok
  THEN check_value_type("filters", value, "a(sa(us))")
  ELSE check_filters_loop(value.fl, 1)

RECURSIVE check_choice_loop(_, _, _, _)
check_choice_loop(options, option, i, seen_option) ==
  IF i > Len(options)
  THEN IF ~seen_option /\ option # ""
       THEN Err("bad current option: " \o option)
       ELSE Ok
  ELSE IF options[i].id = "" THEN Err("option id is empty")
  ELSE IF options[i].label = "" THEN Err("option label is empty")
  ELSE check_choice_loop(options, option, i + 1,
                         seen_option \/ options[i].id = option)

\* check_choice without the test for an empty label.
check_choice_unlabelled(choice) ==
  IF choice.id = "" THEN Err("id is empty")
  ELSE IF Len(choice.options) = 0
       THEN IF choice.option \notin {"", "true", "false"}
            THEN Err("bad current option: " \o choice.option)
            ELSE Ok
       ELSE check_choice_loop(choice.options, choice.option, 1, FALSE)
check_choice(choice) ==
  IF choice.id = "" THEN Err("id is empty")
  ELSE IF choice.label = "" THEN Err("label is empty")
  ELSE IF Len(choice.options) = 0
       THEN IF choice.option \notin {"", "true", "false"}
            THEN Err("bad current option: " \o choice.option)
            ELSE Ok
       ELSE check_choice_loop(choice.options, choice.option, 1, FALSE)

RECURSIVE check_choices_loop(_, _)
check_choices_loop(cl, i) ==
  IF i > Len(cl) THEN Ok
  ELSE IF ~check_choice(cl[i]).ok
       THEN g_prefix_error(check_choice(cl[i]), "invalid choice: ")
       ELSE check_choices_loop(cl, i + 1)

check_choices(value) ==
  IF ~check_value_type("choices", value, "a(ssa(ss)s)").ok
  THEN check_value_type("choices", value, "a(ssa(ss)s)")
  ELSE check_choices_loop(value.cl, 1)

(***************************************************************************)
(* Option schemas and the schema filter.                                   *)
(***************************************************************************)
OptionKey(key, type) == [key |-> key, type |-> type]

\* open_file_options with the type of "modal" mistaken for a string.
open_file_options_mistyped ==
  << OptionKey("accept_label", "s"),
     OptionKey("modal", "s"),
     OptionKey("multiple", "b"),
     OptionKey("filters", "a(sa(us))"),
     OptionKey("choices", "a(ssa(ss)s)") >>

open_file_options ==
  << OptionKey("accept_label", "s"),
     OptionKey("modal", "b"),
     OptionKey("multiple", "b"),
     OptionKey("filters", "a(sa(us))"),
     OptionKey("choices", "a(ssa(ss)s)") >>

save_file_options ==
  << OptionKey("accept_label", "s"),
     OptionKey("modal", "b"),
     OptionKey("filters", "a(sa(us))"),
     OptionKey("current_name", "s"),
     OptionKey("current_folder", "ay"),
     OptionKey("current_file", "ay"),
     OptionKey("choices", "a(ssa(ss)s)") >>

RECURSIVE xdp_filter_options_loop(_, _, _, _)
xdp_filter_options_loop(options, filtered, supported_options, i) ==
  IF i > Len(supported_options) THEN filtered
  ELSE LET value == g_variant_lookup_value(options, supported_options[i].key,
                                           supported_options[i].type)
       IN xdp_filter_options_loop(
            options,
            IF value # Null THEN DictAdd(filtered, supported_options[i].key, value)
                            ELSE filtered,
            supported_options, i + 1)

xdp_filter_options(options, supported_options) ==
  xdp_filter_options_loop(options, EmptyDict, supported_options, 1)

(***************************************************************************)
(* Inputs: the options dictionaries a caller may pass, and the answers the *)
(* backend may give.                                                       *)
(***************************************************************************)
Pattern(type, string) == [type |-> type, string |-> string]
Filter(name, list) == [name |-> name, list |-> list]
ChoiceOption(id, label) == [id |-> id, label |-> label]
Choice(id, label, options, option) ==
  [id |-> id, label |-> label, options |-> options, option |-> option]

GoodFilter == Filter("Images", <<Pattern(0, "*.png"), Pattern(1, "image/png")>>)
GoodChoice == Choice("fmt", "Format", <<>>, "true")
GoodEnum ==
  Choice("enc", "Encoding",
         <<ChoiceOption("utf8", "UTF-8"), ChoiceOption("latin1", "Latin 1")>>, "latin1")

FilterListSet ==
  { <<GoodFilter>>,
    <<Filter("", <<Pattern(0, "*.png")>>)>>,
    <<Filter("Images", <<Pattern(0, "*.png"), Pattern(2, "x")>>)>>,
    <<GoodFilter, Filter("Images", <<>>)>> }

ChoiceListSet ==
  { <<GoodChoice, GoodEnum>>,
    <<Choice("fmt", "Format", <<>>, "maybe")>>,
    <<Choice("enc", "Encoding", <<ChoiceOption("utf8", "")>>, "utf8")>>,
    <<GoodChoice, Choice("enc", "Encoding", <<ChoiceOption("utf8", "UTF-8")>>, "latin1")>> }

ArgOptionsSet ==
  { EmptyDict,
    [accept_label |-> VString("Open"), modal |-> VBool(TRUE), multiple |-> VBool(FALSE),
     current_name |-> VString("a.txt"), current_folder |-> VBytes("/home")],
    [bogus |-> VString("x"), modal |-> VString("yes"), accept_label |-> VBool(TRUE)],
    [filters |-> VString("*.png")],
    [choices |-> VBool(TRUE)],
    [filters |-> VFilters(<<Filter("", <<>>)>>),
     choices |-> VChoices(<<Choice("", "", <<>>, "x")>>)],
    [filters |-> VFilters(<<GoodFilter>>), choices |-> VChoices(<<GoodChoice>>),
     modal |-> VBool(FALSE)] }
  \cup { [filters |-> VFilters(l)] : l \in FilterListSet }
  \cup { [choices |-> VChoices(l)] : l \in ChoiceListSet }

\* The inputs of the validators: every filter and every choice up to MaxSub
\* patterns or sub-options, each alone in its list, and the lists of up to
\* MaxEntries entries drawn from sample entries, one per way of being invalid.
SeqsUpTo(S, n) == UNION { [1..k -> S] : k \in 0..n }

PatternSet == { Pattern(t, s) : t \in {0, 1, 2}, s \in {"", "*.png"} }
FilterSet == { Filter(n, l) : n \in {"", "Images"}, l \in SeqsUpTo(PatternSet, MaxSub) }
SampleFilters ==
  { GoodFilter,
    Filter("", <<Pattern(0, "*.png")>>),
    Filter("Images", <<>>),
    Filter("Images", <<Pattern(2, "x")>>),
    Filter("Images", <<Pattern(0, "*.png"), Pattern(1, "")>>) }
SampleFilterLists == SeqsUpTo(SampleFilters, MaxEntries)
FilterLists == { <<f>> : f \in FilterSet } \cup SampleFilterLists

ChoiceOptionSet == { ChoiceOption(i, l) : i \in {"", "utf8", "latin1"}, l \in {"", "Text"} }
ChoiceSet ==
  { Choice(i, l, o, c) : i \in {"", "enc"}, l \in {"", "Encoding"},
                         o \in SeqsUpTo(ChoiceOptionSet, MaxSub),
                         c \in {"", "true", "utf8", "maybe"} }
SampleChoices ==
  { GoodChoice,
    GoodEnum,
    Choice("", "Format", <<>>, ""),
    Choice("fmt", "", <<>>, "false"),
    Choice("fmt", "Format", <<>>, "maybe"),
    Choice("enc", "Encoding", <<ChoiceOption("utf8", "UTF-8")>>, "latin1"),
    Choice("enc", "Encoding", <<ChoiceOption("", "UTF-8")>>, "") }
SampleChoiceLists == SeqsUpTo(SampleChoices, MaxEntries)
ChoiceLists == { <<c>> : c \in ChoiceSet } \cup SampleChoiceLists

ValidationOptionsSet ==
  { [filters |-> VFilters(l)] : l \in FilterLists }
  \cup { [choices |-> VChoices(l)] : l \in ChoiceLists }
  \cup { [filters |-> VFilters(f), choices |-> VChoices(c)] :
           f \in SampleFilterLists, c \in SampleChoiceLists }
  \cup { [filters |-> VString("*.png"), choices |-> VChoices(c)] : c \in SampleChoiceLists }
AppIds == {"org.example.App", ""}

Uris == {"file:///a.png", "file:///b.txt"}
UriLists == UNION { [1..n -> Uris] : n \in 0..MaxUris }

BackendOptionsSet ==
  { [uris |-> VStrv(l)] : l \in UriLists }
  \cup { [uris |-> VStrv(<<"file:///a.png">>), writable |-> VBool(w)] : w \in BOOLEAN }
  \cup { EmptyDict,
         [uris |-> VString("file:///a.png")],
         [uris |-> VStrv(<<"file:///a.png">>), writable |-> VString("yes")],
         [uris |-> VStrv(<<"file:///a.png">>), b |-> VBool(FALSE)],
         [uris |-> VStrv(<<"file:///a.png">>), writable |-> VBool(TRUE),
          choices |-> VPairs(<<ChoiceOption("fmt", "true")>>)],
         [uris |-> VStrv(<<"file:///b.txt">>), choices |-> VString("fmt")],
         [choices |-> VPairs(<<>>)] }

\* What the backend call ends with: an answer (response, results), or no
\* answer at all (the D-Bus call failed).
BackendAnswers ==
  { [ok |-> TRUE, response |-> 0, results |-> o] : o \in BackendOptionsSet }
  \cup { [ok |-> TRUE, response |-> r, results |-> o] :
            r \in {1, 2}, o \in {EmptyDict, [uris |-> VStrv(<<"file:///a.png">>)]} }
  \cup { [ok |-> FALSE, response |-> 0, results |-> EmptyDict] }

(***************************************************************************)
(* State of one Request and of the contexts that act on it.                *)
(***************************************************************************)
VARIABLES
  method,        \* "none", "open" or "save": the handler the call went to
  arg_options,   \* the options dictionary of the call
  app_id,        \* request->app_id
  mainpc,        \* position of the handler on the main context
  error,         \* the handler's GError, Ok while unset
  guard,         \* owner of the Request's mutex
  exported,      \* request->exported
  impl_request,  \* request->impl_request is set
  data,          \* the Request's object data: "for-save", "response", "options"
  options,       \* the handler's GVariantBuilder of forwarded options
  call,          \* the asynchronous backend call
  replies,       \* replies sent to the method invocation
  task,          \* the GTask running send_response_in_thread_func
  emitted,       \* Response signals emitted for the Request
  registered,    \* calls made to register_document
  cancels,       \* cancellations received
  closed,        \* cancellations that unexported the Request
  crashed        \* the process has faulted

vars ==
  << method, arg_options, app_id, mainpc, error, guard, exported, impl_request, data,
     options, call, replies, task, emitted, registered, cancels, closed, crashed >>

RequestId == "/org/freedesktop/portal/desktop/request/1"
ErrorReply(err) == [kind |-> "error", code |-> err.code, message |-> err.message]
IdReply(id) == [kind |-> "handle", code |-> "", message |-> id]

\* A pointer that was never initialised and points nowhere valid.
Wild == [NoVal EXCEPT !.type = "WILD"]

NoTask ==
  [pc |-> "none", for_save |-> FALSE, response |-> 0, options |-> Null,
   writable |-> TRUE, uris |-> <<>>, i |-> 0, ruris |-> <<>>, results |-> EmptyDict]

\* The result of a backend call that has not finished.
NoAnswer == [ok |-> FALSE, response |-> 0, results |-> EmptyDict]

Init ==
  /\ method = "none"
  /\ arg_options = EmptyDict
  /\ app_id = ""
  /\ mainpc = "idle"
  /\ error = Ok
  /\ guard = "none"
  /\ exported = FALSE
  /\ impl_request = FALSE
  /\ data = [for_save |-> FALSE, response |-> 0, options |-> Null]
  /\ options = EmptyDict
  /\ call = [state |-> "none", method |-> "", app_id |-> "", options |-> EmptyDict,
             answer |-> NoAnswer]
  /\ replies = <<>>
  /\ task = NoTask
  /\ emitted = <<>>
  /\ registered = <<>>
  /\ cancels = 0
  /\ closed = 0
  /\ crashed = FALSE

\* request_export () and request_unexport ()
request_export == exported' = TRUE
request_unexport == exported' = FALSE

(***************************************************************************)
(* handle_open_file                                                        *)
(***************************************************************************)
\* The validation with the two keys looked at in the other order.
open_file_validate_choices_first(opts) ==
  LET filters == g_variant_lookup_value(opts, "filters", AnyType)
      choices == g_variant_lookup_value(opts, "choices", AnyType)
  IN IF choices # Null /\ ~check_choices(choices).ok
     THEN g_prefix_error(check_choices(choices), "invalid choices: ")
     ELSE IF filters # Null /\ ~check_filters(filters).ok
          THEN g_prefix_error(check_filters(filters), "invalid filters: ")
          ELSE Ok
\* The error the handler's validation of arg_options ends with, Ok if none.
open_file_validate(opts) ==
  LET filters == g_variant_lookup_value(opts, "filters", AnyType)
      choices == g_variant_lookup_value(opts, "choices", AnyType)
  IN IF filters # Null /\ ~check_filters(filters).ok
     THEN g_prefix_error(check_filters(filters), "invalid filters: ")
     ELSE IF choices # Null /\ ~check_choices(choices).ok
          THEN g_prefix_error(check_choices(choices), "invalid choices: ")
          ELSE Ok

\* handle_open_file without the return after the reply to an invalid call.
handle_open_file_no_return(opts, app, proxy) ==
  /\ ~crashed /\ mainpc = "idle"
  /\ method' = "open" /\ arg_options' = opts /\ app_id' = app
  /\ options' = xdp_filter_options(opts, open_file_options)
  /\ LET invalid == open_file_validate(opts)
         replied == IF ~invalid.ok THEN Append(replies, ErrorReply(invalid)) ELSE replies
     IN IF ~proxy.ok
        THEN /\ error' = proxy
             /\ replies' = Append(replied, ErrorReply(proxy))
             /\ mainpc' = "returned"
             /\ UNCHANGED << guard, impl_request, exported >>
        ELSE /\ error' = invalid
             /\ replies' = replied
             /\ impl_request' = TRUE
             /\ request_export
             /\ guard' = "handler"
             /\ mainpc' = "exported"
  /\ UNCHANGED << data, call, task, emitted, registered, cancels, closed, crashed >>

\* handle_open_file without REQUEST_AUTOLOCK.
handle_open_file_unlocked(opts, app, proxy) ==
  /\ ~crashed /\ mainpc = "idle"
  /\ method' = "open" /\ arg_options' = opts /\ app_id' = app
  /\ IF ~open_file_validate(opts).ok
     THEN /\ error' = open_file_validate(opts)
          /\ replies' = Append(replies, ErrorReply(open_file_validate(opts)))
          /\ mainpc' = "returned"
          /\ UNCHANGED << guard, options, impl_request, exported >>
     ELSE IF ~proxy.ok
          THEN /\ error' = proxy
               /\ replies' = Append(replies, ErrorReply(proxy))
               /\ mainpc' = "returned"
               /\ options' = xdp_filter_options(opts, open_file_options)
               /\ UNCHANGED << guard, impl_request, exported >>
          ELSE /\ options' = xdp_filter_options(opts, open_file_options)
               /\ error' = Ok
               /\ impl_request' = TRUE
               /\ request_export
               /\ UNCHANGED guard
               /\ mainpc' = "exported"
               /\ UNCHANGED replies
  /\ UNCHANGED << data, call, task, emitted, registered, cancels, closed, crashed >>

\* handle_open_file without request_export ().
handle_open_file_no_export(opts, app, proxy) ==
  /\ ~crashed /\ mainpc = "idle"
  /\ method' = "open" /\ arg_options' = opts /\ app_id' = app
  /\ IF ~open_file_validate(opts).ok
     THEN /\ error' = open_file_validate(opts)
          /\ replies' = Append(replies, ErrorReply(open_file_validate(opts)))
          /\ mainpc' = "returned"
          /\ UNCHANGED << guard, options, impl_request, exported >>
     ELSE IF ~proxy.ok
          THEN /\ error' = proxy
               /\ replies' = Append(replies, ErrorReply(proxy))
               /\ mainpc' = "returned"
               /\ options' = xdp_filter_options(opts, open_file_options)
               /\ UNCHANGED << guard, impl_request, exported >>
          ELSE /\ options' = xdp_filter_options(opts, open_file_options)
               /\ error' = Ok
               /\ impl_request' = TRUE
               /\ UNCHANGED exported
               /\ guard' = "handler"
               /\ mainpc' = "exported"
               /\ UNCHANGED replies
  /\ UNCHANGED << data, call, task, emitted, registered, cancels, closed, crashed >>

\* From the entry of the handler to request_export (), or to an early return.
handle_open_file(opts, app, proxy) ==
  /\ ~crashed /\ mainpc = "idle"
  /\ method' = "open" /\ arg_options' = opts /\ app_id' = app
  /\ IF ~open_file_validate(opts).ok
     THEN /\ error' = open_file_validate(opts)
          /\ replies' = Append(replies, ErrorReply(open_file_validate(opts)))
          /\ mainpc' = "returned"
          /\ UNCHANGED << guard, options, impl_request, exported >>
     ELSE IF ~proxy.ok
          THEN /\ error' = proxy
               /\ replies' = Append(replies, ErrorReply(proxy))
               /\ mainpc' = "returned"
               /\ options' = xdp_filter_options(opts, open_file_options)
               /\ UNCHANGED << guard, impl_request, exported >>
          ELSE /\ options' = xdp_filter_options(opts, open_file_options)
               /\ error' = Ok
               /\ impl_request' = TRUE
               /\ request_export
               /\ guard' = "handler"
               /\ mainpc' = "exported"
               /\ UNCHANGED replies
  /\ UNCHANGED << data, call, task, emitted, registered, cancels, closed, crashed >>

\* xdp_impl_file_chooser_call_open_file ()
handle_open_file_call ==
  /\ ~crashed /\ mainpc = "exported" /\ method = "open"
  /\ call' = [state |-> "pending", method |-> "OpenFile", app_id |-> app_id,
              options |-> options, answer |-> NoAnswer]
  /\ mainpc' = "called"
  /\ UNCHANGED << method, arg_options, app_id, error, guard, exported, impl_request, data,
                  options, replies, task, emitted, registered, cancels, closed, crashed >>

\* xdp_file_chooser_complete_open_file () and the return, which drops the guard
handle_open_file_complete ==
  /\ ~crashed /\ mainpc = "called" /\ method = "open"
  /\ replies' = Append(replies, IdReply(RequestId))
  /\ guard' = "none"
  /\ mainpc' = "returned"
  /\ UNCHANGED << method, arg_options, app_id, error, exported, impl_request, data, options,
                  call, task, emitted, registered, cancels, closed, crashed >>

(***************************************************************************)
(* handle_save_file                                                        *)
(***************************************************************************)
\* handle_save_file without the "for-save" mark on the Request.
handle_save_file_no_flag(opts, app, proxy) ==
  /\ ~crashed /\ mainpc = "idle"
  /\ method' = "save" /\ arg_options' = opts /\ app_id' = app
  /\ options' = xdp_filter_options(opts, save_file_options)
  /\ error' = proxy
  /\ IF ~proxy.ok
     THEN /\ replies' = Append(replies, ErrorReply(proxy))
          /\ mainpc' = "returned"
          /\ UNCHANGED << guard, impl_request, exported >>
     ELSE /\ impl_request' = TRUE
          /\ request_export
          /\ guard' = "handler"
          /\ mainpc' = "exported"
          /\ UNCHANGED replies
  /\ UNCHANGED << data, call, task, emitted, registered, cancels, closed, crashed >>

\* handle_save_file without REQUEST_AUTOLOCK.
handle_save_file_unlocked(opts, app, proxy) ==
  /\ ~crashed /\ mainpc = "idle"
  /\ method' = "save" /\ arg_options' = opts /\ app_id' = app
  /\ options' = xdp_filter_options(opts, save_file_options)
  /\ error' = proxy
  /\ IF ~proxy.ok
     THEN /\ replies' = Append(replies, ErrorReply(proxy))
          /\ mainpc' = "returned"
          /\ UNCHANGED << impl_request, exported, data >>
     ELSE /\ data' = [data EXCEPT !.for_save = TRUE]
          /\ impl_request' = TRUE
          /\ request_export
          /\ mainpc' = "exported"
          /\ UNCHANGED replies
  /\ UNCHANGED << guard, call, task, emitted, registered, cancels, closed, crashed >>
handle_save_file(opts, app, proxy) ==
  /\ ~crashed /\ mainpc = "idle"
  /\ method' = "save" /\ arg_options' = opts /\ app_id' = app
  /\ options' = xdp_filter_options(opts, save_file_options)
  /\ error' = proxy
  /\ IF ~proxy.ok
     THEN /\ replies' = Append(replies, ErrorReply(proxy))
          /\ mainpc' = "returned"
          /\ UNCHANGED << guard, impl_request, exported, data >>
     ELSE /\ data' = [data EXCEPT !.for_save = TRUE]
          /\ impl_request' = TRUE
          /\ request_export
          /\ guard' = "handler"
          /\ mainpc' = "exported"
          /\ UNCHANGED replies
  /\ UNCHANGED << call, task, emitted, registered, cancels, closed, crashed >>

handle_save_file_call ==
  /\ ~crashed /\ mainpc = "exported" /\ method = "save"
  /\ call' = [state |-> "pending", method |-> "SaveFile", app_id |-> app_id,
              options |-> options, answer |-> NoAnswer]
  /\ mainpc' = "called"
  /\ UNCHANGED << method, arg_options, app_id, error, guard, exported, impl_request, data,
                  options, replies, task, emitted, registered, cancels, closed, crashed >>

handle_save_file_complete ==
  /\ ~crashed /\ mainpc = "called" /\ method = "save"
  /\ replies' = Append(replies, IdReply(RequestId))
  /\ guard' = "none"
  /\ mainpc' = "returned"
  /\ UNCHANGED << method, arg_options, app_id, error, exported, impl_request, data, options,
                  call, task, emitted, registered, cancels, closed, crashed >>

(***************************************************************************)
(* The backend-answer callbacks.  They run on the main context, once the   *)
(* handler has returned to it, and do not take the Request's guard.        *)
(***************************************************************************)
\* g_task_new (), g_task_set_task_data (), g_task_run_in_thread ()
g_task_run_in_thread == task' = [NoTask EXCEPT !.pc = "scheduled"]

\* open_file_done answering a failed call itself, and still scheduling the task.
open_file_done_emits(answer) ==
  /\ ~crashed /\ mainpc = "returned"
  /\ call.state = "pending" /\ call.method = "OpenFile"
  /\ LET response == IF answer.ok THEN answer.response ELSE 2
         results == IF answer.ok THEN answer.results ELSE Null
     IN /\ data' = [data EXCEPT !.response = response,
                                !.options = IF results # Null THEN results ELSE @]
        /\ emitted' = IF answer.ok THEN emitted
                      ELSE Append(emitted, [response |-> response,
                                            results |-> [uris |-> VStrv(<<>>)]])
  /\ call' = [call EXCEPT !.state = "done", !.answer = answer]
  /\ g_task_run_in_thread
  /\ UNCHANGED << method, arg_options, app_id, mainpc, error, guard, exported, impl_request,
                  options, replies, registered, cancels, closed, crashed >>

open_file_done(answer) ==
  /\ ~crashed /\ mainpc = "returned"
  /\ call.state = "pending" /\ call.method = "OpenFile"
  /\ LET response == IF answer.ok THEN answer.response ELSE 2
         results == IF answer.ok THEN answer.results ELSE Null
     IN data' = [data EXCEPT !.response = response,
                             !.options = IF results # Null THEN results ELSE @]
  /\ call' = [call EXCEPT !.state = "done", !.answer = answer]
  /\ g_task_run_in_thread
  /\ UNCHANGED << method, arg_options, app_id, mainpc, error, guard, exported, impl_request,
                  options, replies, emitted, registered, cancels, closed, crashed >>

\* What the uninitialised locals `response' and `options' of save_file_done
\* may hold when the finish function fails and leaves them unwritten.
UninitResponses == {0, 1, 2}
UninitOptions == {Null, Wild, EmptyDict, [uris |-> VStrv(<<"file:///a.png">>)]}

save_file_done(answer, uninit_response, uninit_options) ==
  /\ ~crashed /\ mainpc = "returned"
  /\ call.state = "pending" /\ call.method = "SaveFile"
  /\ call' = [call EXCEPT !.state = "done", !.answer = answer]
  /\ LET response == IF answer.ok THEN answer.response ELSE uninit_response
         results == IF answer.ok THEN answer.results ELSE uninit_options
     IN IF results = Wild
        THEN \* g_variant_ref () of a wild pointer
             /\ crashed' = TRUE
             /\ data' = [data EXCEPT !.response = response]
             /\ UNCHANGED task
        ELSE /\ data' = [data EXCEPT !.response = response,
                                     !.options = IF results # Null THEN results ELSE @]
             /\ g_task_run_in_thread
             /\ UNCHANGED crashed
  /\ UNCHANGED << method, arg_options, app_id, mainpc, error, guard, exported, impl_request,
                  options, replies, emitted, registered, cancels, closed >>

(***************************************************************************)
(* send_response_in_thread_func, on a worker thread                        *)
(***************************************************************************)
\* if (!g_variant_lookup (options, "b", "writable", &writable)) writable = FALSE;
\* The key looked up is "b" and the format string is "writable", which names
\* no type: any value under "b" is found, and reading it with that format
\* either aborts or leaves `writable' as initialised.
lookup_writable(opts) ==
  IF g_variant_lookup_value(opts, "b", AnyType) = Null
  THEN { [abort |-> FALSE, writable |-> FALSE] }
  ELSE { [abort |-> TRUE, writable |-> TRUE], [abort |-> FALSE, writable |-> TRUE] }

\* send_response_in_thread_func returning, instead of going to the label out,
\* when the response is not 0.
send_response_in_thread_func_returns ==
  /\ ~crashed /\ task.pc = "scheduled" /\ guard = "none"
  /\ LET for_save == data.for_save
         response == data.response
         opts == data.options
     IN IF response # 0
        THEN /\ task' = [task EXCEPT !.pc = "done", !.for_save = for_save,
                                     !.response = response, !.options = opts]
             /\ UNCHANGED << crashed, guard >>
        ELSE IF opts = Null
        THEN /\ crashed' = TRUE
             /\ guard' = "task"
             /\ task' = [task EXCEPT !.for_save = for_save, !.response = response]
        ELSE \E w \in lookup_writable(opts) :
             /\ guard' = "task"
             /\ IF w.abort
                THEN /\ crashed' = TRUE
                     /\ task' = [task EXCEPT !.for_save = for_save, !.response = response,
                                             !.options = opts]
                ELSE LET choices == g_variant_lookup_value(opts, "choices", "a(ss)")
                         uris == g_variant_lookup_value(opts, "uris", "as")
                     IN /\ task' = [task EXCEPT
                                      !.pc = IF uris # Null THEN "loop" ELSE "out",
                                      !.for_save = for_save,
                                      !.response = response,
                                      !.options = opts,
                                      !.writable = w.writable,
                                      !.results = IF choices # Null
                                                  THEN DictAdd(EmptyDict, "choices", choices)
                                                  ELSE EmptyDict,
                                      !.uris = IF uris # Null THEN uris.strv ELSE <<>>,
                                      !.i = 1]
                        /\ UNCHANGED crashed
  /\ UNCHANGED << method, arg_options, app_id, mainpc, error, exported, impl_request, data,
                  options, call, replies, emitted, registered, cancels, closed >>

\* send_response_in_thread_func looking "choices" up without a type.
send_response_in_thread_func_any_choices ==
  /\ ~crashed /\ task.pc = "scheduled" /\ guard = "none"
  /\ guard' = "task"
  /\ LET for_save == data.for_save
         response == data.response
         opts == data.options
     IN IF response # 0
        THEN /\ task' = [task EXCEPT !.pc = "out", !.for_save = for_save,
                                     !.response = response, !.options = opts]
             /\ UNCHANGED crashed
        ELSE IF opts = Null
        THEN \* g_variant_lookup () of a NULL dictionary
             /\ crashed' = TRUE
             /\ task' = [task EXCEPT !.for_save = for_save, !.response = response]
        ELSE \E w \in lookup_writable(opts) :
             IF w.abort
             THEN /\ crashed' = TRUE
                  /\ task' = [task EXCEPT !.for_save = for_save, !.response = response,
                                          !.options = opts]
             ELSE LET choices == g_variant_lookup_value(opts, "choices", AnyType)
                      uris == g_variant_lookup_value(opts, "uris", "as")
                  IN /\ task' = [task EXCEPT
                                   !.pc = IF uris # Null THEN "loop" ELSE "out",
                                   !.for_save = for_save,
                                   !.response = response,
                                   !.options = opts,
                                   !.writable = w.writable,
                                   !.results = IF choices # Null
                                               THEN DictAdd(EmptyDict, "choices", choices)
                                               ELSE EmptyDict,
                                   !.uris = IF uris # Null THEN uris.strv ELSE <<>>,
                                   !.i = 1]
                     /\ UNCHANGED crashed
  /\ UNCHANGED << method, arg_options, app_id, mainpc, error, exported, impl_request, data,
                  options, call, replies, emitted, registered, cancels, closed >>

\* From REQUEST_AUTOLOCK to the loop over the uris, or to the label out.
send_response_in_thread_func ==
  /\ ~crashed /\ task.pc = "scheduled" /\ guard = "none"
  /\ guard' = "task"
  /\ LET for_save == data.for_save
         response == data.response
         opts == data.options
     IN IF response # 0
        THEN /\ task' = [task EXCEPT !.pc = "out", !.for_save = for_save,
                                     !.response = response, !.options = opts]
             /\ UNCHANGED crashed
        ELSE IF opts = Null
        THEN \* g_variant_lookup () of a NULL dictionary
             /\ crashed' = TRUE
             /\ task' = [task EXCEPT !.for_save = for_save, !.response = response]
        ELSE \E w \in lookup_writable(opts) :
             IF w.abort
             THEN /\ crashed' = TRUE
                  /\ task' = [task EXCEPT !.for_save = for_save, !.response = response,
                                          !.options = opts]
             ELSE LET choices == g_variant_lookup_value(opts, "choices", "a(ss)")
                      uris == g_variant_lookup_value(opts, "uris", "as")
                  IN /\ task' = [task EXCEPT
                                   !.pc = IF uris # Null THEN "loop" ELSE "out",
                                   !.for_save = for_save,
                                   !.response = response,
                                   !.options = opts,
                                   !.writable = w.writable,
                                   !.results = IF choices # Null
                                               THEN DictAdd(EmptyDict, "choices", choices)
                                               ELSE EmptyDict,
                                   !.uris = IF uris # Null THEN uris.strv ELSE <<>>,
                                   !.i = 1]
                     /\ UNCHANGED crashed
  /\ UNCHANGED << method, arg_options, app_id, mainpc, error, exported, impl_request, data,
                  options, call, replies, emitted, registered, cancels, closed >>

\* The reference register_document () returns for a uri when it succeeds.
RegisteredRef(uri) == "doc:" \o uri

\* The loop body leaving the loop, instead of continuing, when a uri fails.
send_response_register_break(ok) ==
  /\ ~crashed /\ task.pc = "loop" /\ task.i <= Len(task.uris)
  /\ registered' = Append(registered,
                          [uri |-> task.uris[task.i], app_id |-> app_id,
                           for_save |-> task.for_save, writable |-> task.writable,
                           ok |-> ok])
  /\ task' = [task EXCEPT !.i = IF ok THEN @ + 1 ELSE Len(task.uris) + 1,
                          !.ruris = IF ok
                                    THEN Append(@, RegisteredRef(task.uris[task.i]))
                                    ELSE @]
  /\ UNCHANGED << method, arg_options, app_id, mainpc, error, guard, exported, impl_request,
                  data, options, call, replies, emitted, cancels, closed, crashed >>

\* The loop body skipping register_document () once the Request is unexported.
send_response_register_if_exported(ok) ==
  /\ ~crashed /\ task.pc = "loop" /\ task.i <= Len(task.uris)
  /\ registered' = IF exported
                   THEN Append(registered,
                               [uri |-> task.uris[task.i], app_id |-> app_id,
                                for_save |-> task.for_save, writable |-> task.writable,
                                ok |-> ok])
                   ELSE registered
  /\ task' = [task EXCEPT !.i = @ + 1,
                          !.ruris = IF ok /\ exported
                                    THEN Append(@, RegisteredRef(task.uris[task.i]))
                                    ELSE @]
  /\ UNCHANGED << method, arg_options, app_id, mainpc, error, guard, exported, impl_request,
                  data, options, call, replies, emitted, cancels, closed, crashed >>

\* One pass of the loop body: register_document (uris[i], ...) and its result.
send_response_register(ok) ==
  /\ ~crashed /\ task.pc = "loop" /\ task.i <= Len(task.uris)
  /\ registered' = Append(registered,
                          [uri |-> task.uris[task.i], app_id |-> app_id,
                           for_save |-> task.for_save, writable |-> task.writable,
                           ok |-> ok])
  /\ task' = [task EXCEPT !.i = @ + 1,
                          !.ruris = IF ok
                                    THEN Append(@, RegisteredRef(task.uris[task.i]))
                                    ELSE @]
  /\ UNCHANGED << method, arg_options, app_id, mainpc, error, guard, exported, impl_request,
                  data, options, call, replies, emitted, cancels, closed, crashed >>

\* The end of the task emitting without looking at request->exported.
send_response_out_unguarded ==
  /\ ~crashed
  /\ \/ task.pc = "out"
     \/ task.pc = "loop" /\ task.i > Len(task.uris)
  /\ LET results == DictAdd(task.results, "uris", VStrv(task.ruris))
     IN /\ task' = [task EXCEPT !.pc = "done", !.results = results]
        /\ emitted' = Append(emitted, [response |-> task.response, results |-> results])
        /\ request_unexport
  /\ guard' = "none"
  /\ UNCHANGED << method, arg_options, app_id, mainpc, error, impl_request, data, options,
                  call, replies, registered, cancels, closed, crashed >>

\* The end of the task emitting and leaving the Request exported.
send_response_out_stays_exported ==
  /\ ~crashed
  /\ \/ task.pc = "out"
     \/ task.pc = "loop" /\ task.i > Len(task.uris)
  /\ LET results == DictAdd(task.results, "uris", VStrv(task.ruris))
     IN /\ task' = [task EXCEPT !.pc = "done", !.results = results]
        /\ IF exported
           THEN emitted' = Append(emitted, [response |-> task.response,
                                            results |-> results])
           ELSE UNCHANGED emitted
  /\ guard' = "none"
  /\ UNCHANGED << method, arg_options, app_id, mainpc, error, exported, impl_request, data,
                  options, call, replies, registered, cancels, closed, crashed >>

\* The end of the task with the label out placed after the "uris" entry is
\* added, so that a response other than 0 carries no "uris".
send_response_out_uris_on_success ==
  /\ ~crashed
  /\ \/ task.pc = "out"
     \/ task.pc = "loop" /\ task.i > Len(task.uris)
  /\ LET results == IF task.response = 0
                    THEN DictAdd(task.results, "uris", VStrv(task.ruris))
                    ELSE task.results
     IN /\ task' = [task EXCEPT !.pc = "done", !.results = results]
        /\ IF exported
           THEN /\ emitted' = Append(emitted, [response |-> task.response,
                                               results |-> results])
                /\ request_unexport
           ELSE UNCHANGED << emitted, exported >>
  /\ guard' = "none"
  /\ UNCHANGED << method, arg_options, app_id, mainpc, error, impl_request, data, options,
                  call, replies, registered, cancels, closed, crashed >>
\* From the label out to the return, which drops the guard.
send_response_out ==
  /\ ~crashed
  /\ \/ task.pc = "out"
     \/ task.pc = "loop" /\ task.i > Len(task.uris)
  /\ LET results == DictAdd(task.results, "uris", VStrv(task.ruris))
     IN /\ task' = [task EXCEPT !.pc = "done", !.results = results]
        /\ IF exported
           THEN /\ emitted' = Append(emitted, [response |-> task.response,
                                               results |-> results])
                /\ request_unexport
           ELSE UNCHANGED << emitted, exported >>
  /\ guard' = "none"
  /\ UNCHANGED << method, arg_options, app_id, mainpc, error, impl_request, data, options,
                  call, replies, registered, cancels, closed, crashed >>

(***************************************************************************)
(* External cancellation of the Request (its Close method, or the caller   *)
(* leaving the bus): under the guard, an exported Request is unexported    *)
(* and released; nothing is emitted.                                       *)
(***************************************************************************)
Cancel ==
  /\ ~crashed /\ impl_request /\ guard = "none" /\ cancels < MaxCancels
  /\ cancels' = cancels + 1
  /\ IF exported
     THEN /\ request_unexport
          /\ closed' = closed + 1
     ELSE UNCHANGED << exported, closed >>
  /\ UNCHANGED << method, arg_options, app_id, mainpc, error, guard, impl_request, data,
                  options, call, replies, task, emitted, registered, crashed >>

(***************************************************************************)
(* Specifications                                                          *)
(***************************************************************************)
\* xdp_impl_request_proxy_new_sync (): the proxy, or the error it failed with
ProxyResults ==
  {Ok, [ok |-> FALSE, code |-> "G_IO_ERROR_CLOSED", message |-> "The connection is closed"]}

Next ==
  \/ \E opts \in ArgOptionsSet, app \in AppIds, proxy \in ProxyResults :
       handle_open_file(opts, app, proxy)
  \/ handle_open_file_call
  \/ handle_open_file_complete
  \/ \E opts \in ArgOptionsSet, app \in AppIds, proxy \in ProxyResults :
       handle_save_file(opts, app, proxy)
  \/ handle_save_file_call
  \/ handle_save_file_complete
  \/ \E answer \in BackendAnswers : open_file_done(answer)
  \/ \E answer \in BackendAnswers, r \in UninitResponses, o \in UninitOptions :
       save_file_done(answer, r, o)
  \/ send_response_in_thread_func
  \/ \E ok \in BOOLEAN : send_response_register(ok)
  \/ send_response_out
  \/ Cancel

Spec == Init /\ [][Next]_vars

\* The steps the program takes by itself once a call has come in: the main
\* context runs the handler to its end and dispatches the backend's answer, the
\* worker thread runs the task once it can take the guard.  The steps follow
\* one another, so at most one of them is enabled at a time.
ProgramStep ==
  \/ handle_open_file_call
  \/ handle_open_file_complete
  \/ handle_save_file_call
  \/ handle_save_file_complete
  \/ \E answer \in BackendAnswers : open_file_done(answer)
  \/ \E answer \in BackendAnswers, r \in UninitResponses, o \in UninitOptions :
       save_file_done(answer, r, o)
  \/ send_response_in_thread_func
  \/ \E ok \in BOOLEAN : send_response_register(ok)
  \/ send_response_out

Fairness == WF_vars(ProgramStep)

FairSpec == Spec /\ Fairness

\* The Open handler alone, up to its validation and export, over the inputs
\* of the validators.
ValidationNext ==
  /\ mainpc = "idle"
  /\ \E opts \in ValidationOptionsSet, proxy \in ProxyResults :
       handle_open_file(opts, "org.example.App", proxy)

ValidationSpec == Init /\ [][ValidationNext]_vars

(***************************************************************************)
(* Properties                                                              *)
(***************************************************************************)
\* The call was accepted: the caller was sent the Request's id.
Accepted == Len(replies) >= 1 /\ replies[Len(replies)].kind = "handle"

\* The backend answered (response 0, results).
AnsweredSuccess == call.state = "done" /\ call.answer.ok /\ call.answer.response = 0

\* The uris of a results dictionary of the backend, none if it holds no list.
BackendUris(results) ==
  IF "uris" \in DOMAIN results /\ results.uris.type = "as"
  THEN results.uris.strv
  ELSE <<>>

RegisteredUris == [j \in 1..Len(registered) |-> registered[j].uri]

IsPrefix(s, t) == Len(s) <= Len(t) /\ \A j \in 1..Len(s) : s[j] = t[j]

\* C1: in every interleaving of the handler, the backend-answer callback, the
\* background task and external cancellation, the terminal response of the
\* Request is emitted at most once.
C1_AtMostOneResponse == Len(emitted) <= 1

C1_Witness == Len(emitted) = 1 /\ task.pc = "done" /\ cancels >= 1

\* C2: when cancellation races with the delivery of the backend answer,
\* exactly one terminal action happens: the task emits and unexports, or the
\* cancellation unexports without emission; never both, and once the task has
\* run to its end never neither.
C2_ExactlyOneTerminalAction ==
  /\ Len(emitted) + closed <= 1
  /\ (task.pc = "done" => Len(emitted) + closed = 1)
  /\ (Len(emitted) + closed = 1 => ~exported)

C2_Witness ==
  /\ task.pc = "done" /\ call.answer.ok
  /\ closed = 1 /\ emitted = <<>> /\ cancels = 2

\* The process faulted on one of the reads that C8 and C9 are about: a Save
\* whose backend call failed, or results of the backend holding a key "b".
FaultedOnBadRead ==
  /\ crashed
  /\ \/ method = "save" /\ ~call.answer.ok
     \/ "b" \in DOMAIN call.answer.results

\* A terminal response with a response code and a uris list was emitted.
ResponseEmitted ==
  /\ Len(emitted) = 1
  /\ "uris" \in DOMAIN emitted[1].results
  /\ emitted[1].results.uris.type = "as"

C4_RejectedCallHasOneErrorReply ==
  /\ (method = "open" /\ ~open_file_validate(arg_options).ok)
       => (~error.ok /\ error.code = InvalidArgument)
  /\ (mainpc # "idle" /\ ~error.ok)
       => /\ mainpc = "returned"
          /\ replies = <<ErrorReply(error)>>
          /\ ~exported /\ ~impl_request
          /\ call.state = "none"
          /\ task.pc = "none" /\ emitted = <<>> /\ registered = <<>>

C4_Witness ==
  /\ method = "open" /\ mainpc = "returned"
  /\ "choices" \in DOMAIN arg_options /\ ~check_choices(arg_options.choices).ok
  /\ Len(replies) = 1 /\ replies[1].code = InvalidArgument

\* C5: a Save call whose filters or choices option is structurally invalid is
\* rejected synchronously and never forwarded to the backend.
C5_SaveRejectsInvalidOptions ==
  (method = "save" /\ ~open_file_validate(arg_options).ok)
    => /\ call.state = "none"
       /\ ~exported
       /\ \A j \in 1..Len(replies) : replies[j].kind = "error"

\* The schemas of the two operations, as sets of (key, type).
OpenSchema ==
  { <<"accept_label", "s">>, <<"modal", "b">>, <<"multiple", "b">>,
    <<"filters", "a(sa(us))">>, <<"choices", "a(ssa(ss)s)">> }
SaveSchema ==
  { <<"accept_label", "s">>, <<"modal", "b">>, <<"filters", "a(sa(us))">>,
    <<"current_name", "s">>, <<"current_folder", "ay">>, <<"current_file", "ay">>,
    <<"choices", "a(ssa(ss)s)">> }

\* opts without the keys that are not in the schema or have the wrong type.
AllowListed(opts, schema) ==
  [k \in {k \in DOMAIN opts : <<k, opts[k].type>> \in schema} |-> opts[k]]

ForwardedIsAllowListed ==
  call.state # "none" =>
    call.options = AllowListed(arg_options, IF method = "open" THEN OpenSchema ELSE SaveSchema)

\* A filters or choices value that is not of its declared type.
MistypedCompound(opts) ==
  \/ "filters" \in DOMAIN opts /\ opts.filters.type # "a(sa(us))"
  \/ "choices" \in DOMAIN opts /\ opts.choices.type # "a(ssa(ss)s)"

\* C6 as stated: a key that is not in the schema, or has the wrong type, is
\* absent from the forwarded payload and never causes a validation error: a
\* call is rejected as invalid only for what its allow-listed options hold.
C6_MistypedNeverRejected ==
  /\ ForwardedIsAllowListed
  /\ error.code = InvalidArgument
       => ~open_file_validate(AllowListed(arg_options, OpenSchema)).ok

\* C6 as amended: such a key is absent from the forwarded payload, and never
\* causes a validation error, except that Open rejects a filters or choices
\* value of the wrong type with InvalidArgument.
C6_MistypedDroppedOrCompoundRejected ==
  /\ ForwardedIsAllowListed
  /\ error.code = InvalidArgument
       => /\ method = "open"
          /\ \/ ~open_file_validate(AllowListed(arg_options, OpenSchema)).ok
             \/ MistypedCompound(arg_options)

C6_Witness ==
  /\ call.state = "pending" /\ method = "open"
  /\ "bogus" \in DOMAIN arg_options /\ "bogus" \notin DOMAIN call.options
  /\ "modal" \in DOMAIN arg_options /\ "modal" \notin DOMAIN call.options

\* The references of the registrations that succeeded, in the order made.
SuccessfulRefs ==
  LET done == SelectSeq(registered, LAMBDA r : r.ok)
  IN [j \in 1..Len(done) |-> RegisteredRef(done[j].uri)]

\* C7: when the backend answers 0 with a list of uris, the uris of the
\* terminal response are exactly the successful registrations in the order of
\* the backend's uris; a failed registration omits that uri only, the later
\* uris are still registered, and the response code stays 0.
C7_UrisAreSuccessfulRegistrations ==
  (Len(emitted) = 1 /\ AnsweredSuccess)
    => /\ emitted[1].response = 0
       /\ emitted[1].results.uris = VStrv(SuccessfulRefs)
       /\ RegisteredUris = BackendUris(call.answer.results)

C7_Witness ==
  /\ Len(emitted) = 1 /\ AnsweredSuccess
  /\ Len(registered) = 2 /\ ~registered[1].ok /\ registered[2].ok

\* C8: when the backend call fails, for Open and for Save, the response
\* attached to the Request is non-zero, so the task registers nothing and
\* emits a non-zero response with an empty uris list.
C8_FailedCallIsCancelled ==
  (call.state = "done" /\ ~call.answer.ok)
    => /\ data.response # 0
       /\ registered = <<>>
       /\ \A j \in 1..Len(emitted) :
            emitted[j].response # 0 /\ emitted[j].results.uris = VStrv(<<>>)

\* C9: the writable flag passed to Document Registration is the backend's
\* boolean writable option when that key is present, and true when it is
\* absent.
C9_WritableFollowsBackend ==
  AnsweredSuccess =>
    \A j \in 1..Len(registered) :
      LET results == call.answer.results
      IN /\ ("writable" \in DOMAIN results /\ results.writable.type = "b")
              => registered[j].writable = results.writable.b
         /\ "writable" \notin DOMAIN results => registered[j].writable = TRUE

\* C10: for an answer with response 0, Document Registration is called once
\* per uri of the backend's uris, in their order, each time with the
\* Request's app_id and with for_save true exactly for a Save.
C10_RegistrationPerUri ==
  /\ \A j \in 1..Len(registered) :
       /\ registered[j].app_id = app_id
       /\ registered[j].for_save = (method = "save")
  /\ AnsweredSuccess =>
       /\ IsPrefix(RegisteredUris, BackendUris(call.answer.results))
       /\ task.pc = "done" => RegisteredUris = BackendUris(call.answer.results)

C10_Witness ==
  /\ AnsweredSuccess /\ task.pc = "done" /\ method = "save"
  /\ Len(registered) = 2 /\ registered[1].uri # registered[2].uri


\* C11: a cancellation that comes after the terminal response was emitted
\* changes nothing of the Request, emits nothing and sends no reply, each
\* time it is repeated; only the count of cancellations moves.
C11_CancelAfterResponseIsNoOp ==
  [][(emitted # <<>> /\ cancels' # cancels)
       => UNCHANGED << method, arg_options, app_id, mainpc, error, guard, exported,
                       impl_request, data, options, call, replies, task, emitted,
                       registered, closed, crashed >>]_vars

\* Two cancellations, both after the response went out (neither closed the
\* Request).
C11_Witness ==
  Len(emitted) = 1 /\ cancels = MaxCancels /\ closed = 0 /\ ~exported /\ task.pc = "done"

BadPattern(p) == p.type \notin {0, 1} \/ p.string = ""
BadFilter(f) ==
  \/ f.name = ""
  \/ f.list = <<>>
  \/ \E i \in 1..Len(f.list) : BadPattern(f.list[i])

\* A choice that is not acceptable, stated from its fields.
BadChoice(c) ==
  \/ c.id = ""
  \/ c.label = ""
  \/ \E i \in 1..Len(c.options) : c.options[i].id = "" \/ c.options[i].label = ""
  \/ c.options = <<>> /\ c.option \notin {"", "true", "false"}
  \/ c.options # <<>> /\ c.option # "" /\ \A i \in 1..Len(c.options) : c.options[i].id # c.option

\* The first entry of a list that Bad holds of.
FirstBad(list, Bad(_)) ==
  CHOOSE i \in 1..Len(list) : Bad(list[i]) /\ \A j \in 1..(i - 1) : ~Bad(list[j])

\* C13: a list of filters is rejected exactly when one of its groups has an
\* empty name, no pattern, a pattern type other than 0 and 1, or an empty
\* pattern string; every other list, the empty one included, is accepted.
C13_FiltersRejectedIffBadGroup ==
  (method = "open" /\ DOMAIN arg_options = {"filters"})
    => LET fl == arg_options["filters"].fl
           bad == \E i \in 1..Len(fl) : BadFilter(fl[i])
       IN /\ ~check_filters(arg_options["filters"]).ok <=> bad
          /\ error.code = InvalidArgument <=> bad

\* A list was rejected for its second group, the first one being acceptable.
C13_Witness ==
  /\ method = "open" /\ DOMAIN arg_options = {"filters"}
  /\ Len(arg_options["filters"].fl) = 2
  /\ ~BadFilter(arg_options["filters"].fl[1])
  /\ BadFilter(arg_options["filters"].fl[2])
  /\ error.code = InvalidArgument

\* C14: a list of choices is rejected exactly when one of its choices has an
\* empty id or label, a sub-option with an empty id or label, a current value
\* outside "", "true", "false" with no sub-options, or a current value that is
\* neither empty nor the id of a sub-option; every other list is accepted.
C14_ChoicesRejectedIffBadChoice ==
  (method = "open" /\ DOMAIN arg_options = {"choices"})
    => LET cl == arg_options["choices"].cl
           bad == \E i \in 1..Len(cl) : BadChoice(cl[i])
       IN /\ ~check_choices(arg_options["choices"]).ok <=> bad
          /\ error.code = InvalidArgument <=> bad

\* A choice with two sub-options was accepted, its current value the id of
\* the second one.
C14_Witness ==
  /\ method = "open" /\ DOMAIN arg_options = {"choices"}
  /\ Len(arg_options["choices"].cl) = 1
  /\ Len(arg_options["choices"].cl[1].options) = 2
  /\ arg_options["choices"].cl[1].option = arg_options["choices"].cl[1].options[2].id
  /\ arg_options["choices"].cl[1].option # arg_options["choices"].cl[1].options[1].id
  /\ error.ok /\ mainpc = "exported"

\* The entries of a list-valued key of the call's options, none if the key is
\* absent or holds a value of another type.
FilterEntries ==
  IF "filters" \in DOMAIN arg_options /\ arg_options["filters"].type = "a(sa(us))"
  THEN arg_options["filters"].fl ELSE <<>>
ChoiceEntries ==
  IF "choices" \in DOMAIN arg_options /\ arg_options["choices"].type = "a(ssa(ss)s)"
  THEN arg_options["choices"].cl ELSE <<>>

\* C17: the validation of Open stops at the first failure.  With an
\* unacceptable filter the error is that of the first such filter, prefixed
\* "invalid filters: invalid filter: ", whatever follows it in the list and
\* whatever "choices" holds; with filters that pass, the error is that of the
\* first unacceptable choice, prefixed "invalid choices: invalid choice: ".
\* It is the one reply of the call, and nothing is exported.
C17_FirstFailureWins ==
  method = "open" =>
    IF \E i \in 1..Len(FilterEntries) : BadFilter(FilterEntries[i])
    THEN /\ error = Err("invalid filters: invalid filter: "
                        \o check_filter(FilterEntries[FirstBad(FilterEntries, BadFilter)]).message)
         /\ replies = <<ErrorReply(error)>>
         /\ ~exported
    ELSE IF /\ "filters" \in DOMAIN arg_options => arg_options["filters"].type = "a(sa(us))"
            /\ \E i \in 1..Len(ChoiceEntries) : BadChoice(ChoiceEntries[i])
    THEN /\ error = Err("invalid choices: invalid choice: "
                        \o check_choice(ChoiceEntries[FirstBad(ChoiceEntries, BadChoice)]).message)
         /\ replies = <<ErrorReply(error)>>
         /\ ~exported
    ELSE TRUE

\* Two unacceptable filters with different faults, and an unacceptable choice
\* besides: the reply names the fault of the first filter.
C17_Witness ==
  /\ method = "open"
  /\ Len(FilterEntries) = 2
  /\ BadFilter(FilterEntries[1]) /\ BadFilter(FilterEntries[2])
  /\ check_filter(FilterEntries[1]) # check_filter(FilterEntries[2])
  /\ \E i \in 1..Len(ChoiceEntries) : BadChoice(ChoiceEntries[i])
  /\ error.message = "invalid filters: invalid filter: " \o check_filter(FilterEntries[1]).message
  /\ Len(replies) = 1

\* A step that writes a shared field of the Request: the for-save mark, the
\* stored response, the stored backend options or the exported flag.
WritesRequest == data' # data \/ exported' # exported

\* The step is taken by the owner of the guard: it holds the guard before or
\* after the step, or it is a cancellation, which takes and drops it within.
HoldsGuard == guard # "none" \/ guard' # "none" \/ cancels' # cancels

\* The write a backend-answer callback makes: response and options only, with
\* the guard free, the handler returned and no task created yet.
CallbackWrite ==
  /\ call.state = "pending" /\ call'.state = "done"
  /\ guard = "none" /\ mainpc = "returned" /\ task.pc = "none"
  /\ data'.for_save = data.for_save /\ exported' = exported

\* The task is past REQUEST_AUTOLOCK and before its return.
TaskReads == task.pc \in {"loop", "out"}

C16_ChoicesPassedWhateverType ==
  (AnsweredSuccess /\ Len(emitted) = 1 /\ "choices" \in DOMAIN call.answer.results)
    => /\ "choices" \in DOMAIN emitted[1].results
       /\ emitted[1].results["choices"] = call.answer.results["choices"]

\* C16: a "choices" value of the backend's answer is in the emitted result
\* unchanged when its type is a(ss); a value of any other type is left out.
C16_ChoicesPassedWhenPairs ==
  (AnsweredSuccess /\ Len(emitted) = 1 /\ "choices" \in DOMAIN call.answer.results)
    => IF call.answer.results["choices"].type = "a(ss)"
       THEN /\ "choices" \in DOMAIN emitted[1].results
            /\ emitted[1].results["choices"] = call.answer.results["choices"]
       ELSE "choices" \notin DOMAIN emitted[1].results

\* A response went out with the pairs the backend answered.
C16_Witness ==
  /\ AnsweredSuccess /\ Len(emitted) = 1
  /\ "choices" \in DOMAIN emitted[1].results
  /\ emitted[1].results["choices"].pl # <<>>

WasExported == exported \/ closed >= 1 \/ emitted # <<>>

\* C19: the backend call is issued once, from an exported Request whose
\* backend handle is set, and is never issued again; whenever there is an
\* answer or a task, the Request was exported before.
C19_CallOnceAfterExport ==
  [][/\ (call.state = "none" /\ call'.state # "none")
          => exported /\ impl_request /\ call'.state = "pending"
     /\ call.state # "none"
          => /\ call'.state \in {call.state, "done"}
             /\ call'.method = call.method
             /\ call'.options = call.options
     /\ (call'.state = "done" \/ task'.pc # "none") => impl_request' /\ WasExported']_vars

\* The call was answered and the task ran to its end, the Request unexported
\* since.
C19_Witness ==
  call.state = "done" /\ task.pc = "done" /\ ~exported /\ WasExported /\ Accepted

\* C20: a uri is registered only when the stored response is 0, and then
\* every uri of the backend's answer is, also when the Request was cancelled
\* before the task ran: the cancellation leaves only the emission out.
C20_RegistrationRegardlessOfExport ==
  /\ registered # <<>> => data.response = 0 /\ task.response = 0
  /\ (task.pc = "done" /\ AnsweredSuccess)
       => RegisteredUris = BackendUris(call.answer.results)
  /\ (task.pc = "done" /\ closed >= 1) => emitted = <<>>

\* A cancelled Request whose task registered two uris and emitted nothing.
C20_Witness ==
  /\ closed = 1 /\ task.pc = "done" /\ AnsweredSuccess
  /\ Len(registered) = 2 /\ emitted = <<>>
====
